---- MODULE Spec2Model ----
(***************************************************************************)
(* Model of app.py: the Streamlit script main(), the two text extractors   *)
(* and get_ollama_analysis.  One behaviour is a sequence of script runs    *)
(* (Streamlit re-runs main() on every interaction); pc is the position of  *)
(* the current run.                                                         *)
(*                                                                          *)
(* Texts (resume text, job description) are sequences of characters.       *)
(* JSON values are tagged records: IntV, StrV, FloatV, NullV, ListV, ObjV. *)
(* The text returned by the model is abstracted to what json.loads does    *)
(* with it: either it is not JSON, or it is the serialisation of a value.  *)
(***************************************************************************)
EXTENDS Integers, Sequences, FiniteSets, TLC

\* ---------------------------------------------------------------- bounds
MaxParts == 2      \* pages of a PDF / paragraphs of a DOCX
MaxSkills == 2     \* entries of the existing_skills list of a response

\* ------------------------------------------------------------ JSON values
IntV(n) == [k |-> "int", i |-> n]
StrV(s) == [k |-> "str", s |-> s]
FloatV(w, f) == [k |-> "float", whole |-> w, frac |-> f]
NullV == [k |-> "null"]
ListV(q) == [k |-> "list", l |-> q]
ObjV(o) == [k |-> "object", o |-> o]

None == [k |-> "None"]
Invalid == [k |-> "invalid"]

\* ------------------------------------------------ AnalysisResult (schema)
Fields ==
  {"matching_score", "existing_skills", "missing_skills",
   "recommended_improvements", "suitability_status"}

ListFields == {"existing_skills", "missing_skills", "recommended_improvements"}

\* int() of the sampled strings: the decimal strings convert, the rest do not
NumericStrings == {"60"}

StrToInt(s) == CASE s = "60" -> 60

\* pydantic's (lax mode) validation of an int field: an int is taken as is,
\* a float without fractional part and a decimal string are converted
ValidateInt(v) ==
  CASE v.k = "int" -> v
    [] v.k = "float" -> IF v.frac = 0 THEN IntV(v.whole) ELSE Invalid
    [] v.k = "str" -> IF v.s \in NumericStrings THEN IntV(StrToInt(v.s)) ELSE Invalid
    [] OTHER -> Invalid

\* a validation of a str field that lets any value through
ValidateStr_Any(v) == v

\* validation of a str field: only a string is accepted; no constraint on it
ValidateStr(v) == IF v.k = "str" THEN v ELSE Invalid

\* a validation of a List[str] field that returns the items in reverse order
ValidateListStr_Reversed(v) ==
  IF v.k = "list" /\ \A j \in 1..Len(v.l) : v.l[j].k = "str"
  THEN ListV([j \in 1..Len(v.l) |-> v.l[Len(v.l) + 1 - j]])
  ELSE Invalid

\* validation of a List[str] field: a list all of whose items are strings
ValidateListStr(v) ==
  IF v.k = "list" /\ \A j \in 1..Len(v.l) : ValidateStr(v.l[j]) # Invalid
  THEN ListV([j \in 1..Len(v.l) |-> ValidateStr(v.l[j])])
  ELSE Invalid

ValidateField(f, v) ==
  CASE f = "matching_score" -> ValidateInt(v)
    [] f \in ListFields -> ValidateListStr(v)
    [] f = "suitability_status" -> ValidateStr(v)

\* AnalysisResult(**data): every field required and valid, else ValidationError
AnalysisResult(data) ==
  IF \A f \in Fields : f \in DOMAIN data /\ ValidateField(f, data[f]) # Invalid
  THEN [f \in Fields |-> ValidateField(f, data[f])]
  ELSE Invalid

\* validated_data.model_dump(): the dict of the five fields
model_dump(validated) == [f \in Fields |-> validated[f]]

\* json.loads(content): the value the text serialises, or JSONDecodeError
json_loads(content) == IF content.json THEN content.value ELSE Invalid

\* ------------------------------------------------- get_ollama_analysis
Raise(e) == [raised |-> TRUE, exc |-> e]
Return(v) == [raised |-> FALSE, value |-> v]

\* the statements of the try block after the chat call:
\*   content = response['message']['content']; data = json.loads(content)
\*   validated_data = AnalysisResult(**data); return validated_data.model_dump()
TryBody(resp) ==
  IF "message" \notin DOMAIN resp THEN Raise("KeyError")
  ELSE IF "content" \notin DOMAIN resp.message THEN Raise("KeyError")
  ELSE LET data == json_loads(resp.message.content) IN
    IF data = Invalid THEN Raise("JSONDecodeError")
    ELSE IF data.k # "object" THEN Raise("TypeError")   \* ** needs a mapping
    ELSE LET validated_data == AnalysisResult(data.o) IN
      IF validated_data = Invalid THEN Raise("ValidationError")
      ELSE Return(model_dump(validated_data))

\* the exception classes the try block can see; all derive from Exception
Exceptions ==
  {"ResponseError", "ConnectionError", "KeyError", "JSONDecodeError",
   "TypeError", "ValidationError"}

ApiErrorMsg == "Ollama API Error"
JsonErrorMsg == "Failed to parse LLM response. The model did not return valid JSON."
UnexpectedMsg == "An unexpected error occurred"

\* except clauses with `except Exception` ahead of the JSONDecodeError clause
ExceptClauses_GenericFirst(exc) ==
  CASE exc = "ResponseError" -> [caught |-> TRUE, msg |-> ApiErrorMsg, next |-> "returned"]
    [] exc \in Exceptions -> [caught |-> TRUE, msg |-> UnexpectedMsg, next |-> "returned"]
    [] OTHER -> [caught |-> FALSE, msg |-> "", next |-> "crashed"]

\* except clauses that call the endpoint again after a ResponseError
ExceptClauses_Retry(exc) ==
  CASE exc = "ResponseError" -> [caught |-> TRUE, msg |-> ApiErrorMsg, next |-> "chat"]
    [] exc = "JSONDecodeError" -> [caught |-> TRUE, msg |-> JsonErrorMsg, next |-> "returned"]
    [] exc \in Exceptions -> [caught |-> TRUE, msg |-> UnexpectedMsg, next |-> "returned"]
    [] OTHER -> [caught |-> FALSE, msg |-> "", next |-> "crashed"]

\* the three except clauses, tried in order; each reports and returns None
ExceptClauses(exc) ==
  CASE exc = "ResponseError" -> [caught |-> TRUE, msg |-> ApiErrorMsg, next |-> "returned"]
    [] exc = "JSONDecodeError" -> [caught |-> TRUE, msg |-> JsonErrorMsg, next |-> "returned"]
    [] exc \in Exceptions -> [caught |-> TRUE, msg |-> UnexpectedMsg, next |-> "returned"]
    [] OTHER -> [caught |-> FALSE, msg |-> "", next |-> "crashed"]

\* ----------------------------------------------------------------- main
ExtractErrorMsg == "Error extracting text"
WarningMsg == "Please provide both the Job Description and the Resume."
ResultsHeader == "Analysis Results"

\* the guard with `and` for `or`
MissingInput_And(jd, resume) == jd = <<>> /\ resume = <<>>

\* `if not jd_input or not resume_text`
MissingInput(jd, resume) == jd = <<>> \/ resume = <<>>

\* `if result:` : None and the empty dict are falsy
Truthy(r) == r # None /\ DOMAIN r # {}

\* a page loop that puts a newline after each page
PdfAppend_Newline(t, page) == t \o page \o <<"\n">>

\* `text += page.extract_text()`
PdfAppend(t, page) == t \o page

\* a paragraph loop that leaves out the newline
DocxAppend_NoNewline(t, para) == t \o para

\* `text += para.text + "\n"`
DocxAppend(t, para) == t \o para \o <<"\n">>

\* an except clause that keeps what had been extracted before the error
ExceptExtraction_Partial(before, partial) == partial

\* `except Exception as e: st.error(...)`: resume_text keeps the value it
\* had before the try; the extractor's local text is dropped
ExceptExtraction(before, partial) == before

\* ------------------------------------------------------ input domains
Texts == {<<>>, <<"a">>, <<"b">>}
JdTexts == {<<>>, <<"j">>}
PartSeqs == UNION {[1..n -> Texts] : n \in 0..MaxParts}

\* an uploaded file: its declared type, its pages or paragraphs, and where
\* the library raises on it: 0 never (a valid document), 1 on opening it,
\* i+1 on extracting page i
PdfFiles ==
  UNION {{[type |-> "pdf", parts |-> p, raises_at |-> r] : r \in 0..(Len(p) + 1)} : p \in PartSeqs}
DocxFiles ==
  {[type |-> "docx", parts |-> p, raises_at |-> r] : p \in PartSeqs, r \in 0..1}
OtherFiles == {[type |-> "other", parts |-> <<>>, raises_at |-> 0]}
Files == PdfFiles \cup DocxFiles \cup OtherFiles

Missing == [k |-> "missing"]
SkillNames == {"Python", "Docker"}
Statuses == {"Highly Recommended", "Qualified", "Potential Match", "Not Qualified"}

SkillLists == UNION {[1..n -> {StrV(s) : s \in SkillNames}] : n \in 0..MaxSkills}

ScoreVals ==
  {IntV(-1), IntV(60), IntV(100), IntV(150), StrV("60"), StrV("sixty"),
   FloatV(60, 0), FloatV(60, 5), NullV, Missing}
ExistingVals ==
  {ListV(q) : q \in SkillLists} \cup {ListV(<<IntV(1)>>), StrV("Python"), Missing}
MissingSkillVals ==
  {ListV(<<StrV("Kubernetes")>>), ListV(<<>>), NullV, Missing}
ImprovementVals ==
  {ListV(<<StrV("Add Kubernetes experience")>>),
   ListV(<<StrV("Add Kubernetes experience"), IntV(2)>>), Missing}
StatusVals ==
  {StrV(st) : st \in Statuses} \cup {StrV("Maybe"), IntV(3), Missing}

\* the sampled objects: every combination of score, existing skills and
\* status around two good lists, and every combination of the two other lists
\* around a good score, skill list and status
RawObjects ==
  [matching_score : ScoreVals, existing_skills : ExistingVals,
   missing_skills : {ListV(<<StrV("Kubernetes")>>)},
   recommended_improvements : {ListV(<<StrV("Add Kubernetes experience")>>)},
   suitability_status : StatusVals]
  \cup
  [matching_score : {IntV(60)}, existing_skills : {ListV(<<StrV("Python")>>)},
   missing_skills : MissingSkillVals, recommended_improvements : ImprovementVals,
   suitability_status : {StrV("Potential Match")}]

\* the JSON object that has the fields of raw that are not Missing
Object(raw) == [f \in {g \in Fields : raw[g] # Missing} |-> raw[f]]
Objects == {Object(raw) : raw \in RawObjects}

JsonValues == {ObjV(o) : o \in Objects} \cup {NullV, ListV(<<>>), StrV("Qualified"), IntV(60)}
Contents == {[json |-> FALSE]} \cup {[json |-> TRUE, value |-> v] : v \in JsonValues}
Responses ==
  {[done |-> TRUE], [message |-> [role |-> "assistant"]]}
  \cup {[message |-> [role |-> "assistant", content |-> c]] : c \in Contents}
ChatOutcomes ==
  {Raise("ResponseError"), Raise("ConnectionError")} \cup {Return(r) : r \in Responses}

\* ---------------------------------------------------------------- state
VARIABLES
  pc,               \* position of the current run of main
  jd_input,         \* the text area's value
  uploaded_file,    \* the file uploader's value, None if no file
  resume_text,      \* main's resume_text
  text,             \* the extractor's local accumulator
  idx,              \* the extractor's loop position
  analyze_btn,      \* st.button's value in this run
  response,         \* what ollama.chat returned in this run
  result,           \* what get_ollama_analysis returned
  ui,               \* the messages the run has put on the page, in order
  chat_calls,       \* calls of ollama.chat in this run
  extracted_before, \* output of the first completed extraction of the file
  rendered          \* the result the results section was rendered from

vars ==
  <<pc, jd_input, uploaded_file, resume_text, text, idx, analyze_btn,
    response, result, ui, chat_calls, extracted_before, rendered>>

\* no extraction of the file has completed / the first one returned t, and
\* `again` tells whether a later one has completed too
NotYet == [some |-> FALSE]
Some(t, again) == [some |-> TRUE, text |-> t, again |-> again]

Init ==
  /\ pc = "idle"
  /\ jd_input = <<>>
  /\ uploaded_file = None
  /\ resume_text = <<>>
  /\ text = <<>>
  /\ idx = 0
  /\ analyze_btn = FALSE
  /\ response = None
  /\ result = None
  /\ ui = <<>>
  /\ chat_calls = 0
  /\ extracted_before = NotYet
  /\ rendered = None

\* the user interacts and Streamlit runs the script again from the top: the
\* page is cleared and the locals of the previous run are gone
rerun ==
  /\ pc \in {"done", "crashed"}
  /\ pc' = "idle"
  /\ resume_text' = <<>>
  /\ text' = <<>>
  /\ idx' = 0
  /\ analyze_btn' = FALSE
  /\ response' = None
  /\ result' = None
  /\ ui' = <<>>
  /\ chat_calls' = 0
  /\ rendered' = None
  /\ UNCHANGED <<jd_input, uploaded_file, extracted_before>>

\* the widgets return the user's inputs; resume_text = ""
main_start(jd, file) ==
  /\ pc = "idle"
  /\ jd_input' = jd
  /\ uploaded_file' = file
  /\ resume_text' = <<>>
  /\ extracted_before' = IF file = uploaded_file THEN extracted_before ELSE NotYet
  /\ pc' = IF file = None THEN "button" ELSE "extract"
  /\ UNCHANGED <<text, idx, analyze_btn, response, result, ui, chat_calls, rendered>>

\* the except clause around the extraction
extraction_raised ==
  /\ ui' = Append(ui, ExtractErrorMsg)
  /\ resume_text' = ExceptExtraction(resume_text, text)
  /\ pc' = "button"
  /\ UNCHANGED <<text, idx, extracted_before>>

extraction_returned ==
  /\ resume_text' = text
  /\ extracted_before' =
       IF extracted_before.some THEN Some(extracted_before.text, TRUE) ELSE Some(text, FALSE)
  /\ pc' = "button"
  /\ UNCHANGED <<text, idx, ui>>

\* pdf = pypdf.PdfReader(file); text = ""
extract_text_from_pdf_open ==
  /\ pc = "extract" /\ uploaded_file.type = "pdf"
  /\ IF uploaded_file.raises_at = 1
     THEN extraction_raised
     ELSE /\ text' = <<>>
          /\ idx' = 1
          /\ pc' = "pdf_pages"
          /\ UNCHANGED <<resume_text, ui, extracted_before>>
  /\ UNCHANGED <<jd_input, uploaded_file, analyze_btn, response, result, chat_calls, rendered>>

\* one iteration of `for page in pdf.pages`
extract_text_from_pdf_page ==
  /\ pc = "pdf_pages" /\ idx <= Len(uploaded_file.parts)
  /\ IF uploaded_file.raises_at = idx + 1
     THEN extraction_raised
     ELSE /\ text' = PdfAppend(text, uploaded_file.parts[idx])
          /\ idx' = idx + 1
          /\ UNCHANGED <<pc, resume_text, ui, extracted_before>>
  /\ UNCHANGED <<jd_input, uploaded_file, analyze_btn, response, result, chat_calls, rendered>>

\* `return text`, assigned to resume_text
extract_text_from_pdf_return ==
  /\ pc = "pdf_pages" /\ idx > Len(uploaded_file.parts)
  /\ extraction_returned
  /\ UNCHANGED <<jd_input, uploaded_file, analyze_btn, response, result, chat_calls, rendered>>

\* doc = docx.Document(file); text = ""
extract_text_from_docx_open ==
  /\ pc = "extract" /\ uploaded_file.type = "docx"
  /\ IF uploaded_file.raises_at = 1
     THEN extraction_raised
     ELSE /\ text' = <<>>
          /\ idx' = 1
          /\ pc' = "docx_paragraphs"
          /\ UNCHANGED <<resume_text, ui, extracted_before>>
  /\ UNCHANGED <<jd_input, uploaded_file, analyze_btn, response, result, chat_calls, rendered>>

\* one iteration of `for para in doc.paragraphs`
extract_text_from_docx_paragraph ==
  /\ pc = "docx_paragraphs" /\ idx <= Len(uploaded_file.parts)
  /\ text' = DocxAppend(text, uploaded_file.parts[idx])
  /\ idx' = idx + 1
  /\ UNCHANGED <<pc, resume_text, ui, extracted_before>>
  /\ UNCHANGED <<jd_input, uploaded_file, analyze_btn, response, result, chat_calls, rendered>>

extract_text_from_docx_return ==
  /\ pc = "docx_paragraphs" /\ idx > Len(uploaded_file.parts)
  /\ extraction_returned
  /\ UNCHANGED <<jd_input, uploaded_file, analyze_btn, response, result, chat_calls, rendered>>

\* the file's type is neither of the two MIME types: no branch is taken
extract_no_branch ==
  /\ pc = "extract" /\ uploaded_file.type \notin {"pdf", "docx"}
  /\ pc' = "button"
  /\ UNCHANGED <<jd_input, uploaded_file, resume_text, text, idx, analyze_btn,
                 response, result, ui, chat_calls, extracted_before, rendered>>

\* analyze_btn is False: the run ends
button_not_pressed ==
  /\ pc = "button"
  /\ analyze_btn' = FALSE
  /\ pc' = "done"
  /\ UNCHANGED <<jd_input, uploaded_file, resume_text, text, idx,
                 response, result, ui, chat_calls, extracted_before, rendered>>

\* analyze_btn is True and an input is missing: st.warning
button_warning ==
  /\ pc = "button"
  /\ MissingInput(jd_input, resume_text)
  /\ analyze_btn' = TRUE
  /\ ui' = Append(ui, WarningMsg)
  /\ pc' = "done"
  /\ UNCHANGED <<jd_input, uploaded_file, resume_text, text, idx,
                 response, result, chat_calls, extracted_before, rendered>>

\* analyze_btn is True and both inputs are there: get_ollama_analysis is called
button_analyze ==
  /\ pc = "button"
  /\ ~MissingInput(jd_input, resume_text)
  /\ analyze_btn' = TRUE
  /\ pc' = "chat"
  /\ UNCHANGED <<jd_input, uploaded_file, resume_text, text, idx,
                 response, result, ui, chat_calls, extracted_before, rendered>>

\* an exception in the try block of get_ollama_analysis
analysis_raised(exc) ==
  LET h == ExceptClauses(exc) IN
    /\ ui' = IF h.caught THEN Append(ui, h.msg) ELSE ui
    /\ result' = None
    /\ pc' = h.next

\* response = ollama.chat(...): the endpoint answers or the call raises
ollama_chat(out) ==
  /\ pc = "chat"
  /\ chat_calls' = chat_calls + 1
  /\ IF out.raised
     THEN analysis_raised(out.exc) /\ UNCHANGED response
     ELSE /\ response' = out.value
          /\ pc' = "parse"
          /\ UNCHANGED <<result, ui>>
  /\ UNCHANGED <<jd_input, uploaded_file, resume_text, text, idx, analyze_btn,
                 extracted_before, rendered>>

\* the rest of the try block, and the except clauses
parse_and_validate ==
  /\ pc = "parse"
  /\ LET r == TryBody(response) IN
       IF r.raised
       THEN analysis_raised(r.exc)
       ELSE /\ result' = r.value
            /\ pc' = "returned"
            /\ UNCHANGED ui
  /\ UNCHANGED <<jd_input, uploaded_file, resume_text, text, idx, analyze_btn,
                 response, chat_calls, extracted_before, rendered>>

\* `if result:` the results section is rendered from result
render ==
  /\ pc = "returned"
  /\ IF Truthy(result)
     THEN ui' = Append(ui, ResultsHeader) /\ rendered' = result
     ELSE UNCHANGED <<ui, rendered>>
  /\ pc' = "done"
  /\ UNCHANGED <<jd_input, uploaded_file, resume_text, text, idx, analyze_btn,
                 response, result, chat_calls, extracted_before>>

Next ==
  \/ rerun
  \/ \E jd \in JdTexts, file \in Files \cup {None} : main_start(jd, file)
  \/ extract_text_from_pdf_open
  \/ extract_text_from_pdf_page
  \/ extract_text_from_pdf_return
  \/ extract_text_from_docx_open
  \/ extract_text_from_docx_paragraph
  \/ extract_text_from_docx_return
  \/ extract_no_branch
  \/ button_not_pressed
  \/ button_warning
  \/ button_analyze
  \/ \E out \in ChatOutcomes : ollama_chat(out)
  \/ parse_and_validate
  \/ render

Spec == Init /\ [][Next]_vars

\* ============================================================ properties
InUi(m) == \E j \in 1..Len(ui) : ui[j] = m

\* get_ollama_analysis has been entered in this run
Attempted == pc \in {"chat", "parse", "returned"} \/ chat_calls > 0

\* get_ollama_analysis has returned in this run
Finished == pc \in {"returned", "done"} /\ chat_calls > 0

\* the extraction step of this run is over
PostExtract == pc \in {"button", "chat", "parse", "returned", "done", "crashed"}

HasContent ==
  /\ "message" \in DOMAIN response
  /\ "content" \in DOMAIN response.message

\* the model answered with the text of a JSON object
HasObject ==
  /\ HasContent
  /\ response.message.content.json
  /\ response.message.content.value.k = "object"

ResponseObject == response.message.content.value.o

AnalysisMsgs == {ApiErrorMsg, JsonErrorMsg, UnexpectedMsg}
ErrorsReported == Len(SelectSeq(ui, LAMBDA m : m \in AnalysisMsgs))

\* the JSON type of v is the declared type of field f
HasDeclaredType(f, v) ==
  CASE f = "matching_score" -> v.k = "int"
    [] f \in ListFields -> v.k = "list" /\ \A j \in 1..Len(v.l) : v.l[j].k = "str"
    [] f = "suitability_status" -> v.k = "str"

\* the object has the five fields, each of its declared type
SatisfiesSchema(o) ==
  \A f \in Fields : f \in DOMAIN o /\ HasDeclaredType(f, o[f])

\* a returned value that is a complete, typed AnalysisResult
FullyValidated(r) == r # None /\ DOMAIN r = Fields /\ SatisfiesSchema(r)

\* v is of the declared type of f or is one of the values that the
\* validation converts to it: a score given as a decimal string or as a
\* float without fractional part
Convertible(f, v) ==
  \/ HasDeclaredType(f, v)
  \/ /\ f = "matching_score"
     /\ \/ v.k = "float" /\ v.frac = 0
        \/ v.k = "str" /\ v.s \in NumericStrings

Rejected(o) == \E f \in Fields : f \notin DOMAIN o \/ ~Convertible(f, o[f])

\* C1: a value returned by get_ollama_analysis has a matching_score in 0..100
\* (a response with a score outside the range yields None)
C1_ScoreInRange ==
  (Finished /\ result # None) =>
    result["matching_score"].i \in 0..100

\* C2: a value returned by get_ollama_analysis has a suitability_status that
\* is one of the four enumerated values
C2_StatusEnumerated ==
  (Finished /\ result # None) =>
    result["suitability_status"].s \in Statuses

C4_FailuresCaught ==
  /\ pc # "crashed"
  /\ (Finished /\ (~HasObject \/ Rejected(ResponseObject))) =>
       /\ result = None
       /\ rendered = None
       /\ ErrorsReported = 1
       /\ Len(ui) = 1
       /\ (ui[1] = JsonErrorMsg) <=> (HasContent /\ ~response.message.content.json)
       /\ (ui[1] = ApiErrorMsg) => response = None

C4_Witness ==
  /\ pc = "done" /\ HasContent /\ ~response.message.content.json
  /\ result = None /\ ui = <<JsonErrorMsg>>

\* C5: get_ollama_analysis is entered only in a run where the button was
\* pressed and both jd_input and resume_text are non-empty; a run where the
\* button was pressed with one of them empty ends with the warning and
\* without a call
C5_GuardedCall ==
  /\ Attempted => (analyze_btn /\ jd_input # <<>> /\ resume_text # <<>>)
  /\ (pc = "done" /\ analyze_btn /\ (jd_input = <<>> \/ resume_text = <<>>)) =>
       (InUi(WarningMsg) /\ ~Attempted /\ chat_calls = 0 /\ result = None)

C5_Witness ==
  /\ pc = "done" /\ analyze_btn
  /\ jd_input # <<>> /\ resume_text = <<>>
  /\ uploaded_file # None
  /\ InUi(WarningMsg) /\ chat_calls = 0

\* C6: when the extraction raises, the error is reported, resume_text stays
\* empty (also when part of the text had been extracted) and the run never
\* enters get_ollama_analysis
C6_ExtractionErrorStopsRun ==
  /\ (PostExtract /\ uploaded_file # None /\ uploaded_file.raises_at # 0) =>
       (ui # <<>> /\ ui[1] = ExtractErrorMsg)
  /\ InUi(ExtractErrorMsg) =>
       (resume_text = <<>> /\ ~Attempted /\ result = None /\ pc # "crashed")

C6_Witness ==
  /\ pc = "done" /\ analyze_btn /\ jd_input # <<>>
  /\ uploaded_file # None /\ uploaded_file.raises_at > 1
  /\ text # <<>>
  /\ resume_text = <<>>
  /\ ui = <<ExtractErrorMsg, WarningMsg>>

\* C7: a run calls the endpoint at most once; once a failure is reported the
\* call has returned None and the endpoint is not called again
C7_AtMostOneCall ==
  /\ chat_calls <= 1
  /\ ErrorsReported > 0 => (pc \in {"returned", "done"} /\ chat_calls = 1 /\ result = None)
  /\ Finished => chat_calls = 1

C7_Witness ==
  /\ pc = "done" /\ chat_calls = 1 /\ result = None
  /\ response = None /\ ui = <<ApiErrorMsg>>

\* C8: for a JSON object that satisfies the schema, the returned value has
\* the five fields equal to the response's, lists in the same order
C8_ReturnedUnchanged ==
  (Finished /\ HasObject /\ SatisfiesSchema(ResponseObject)) =>
    /\ result # None
    /\ DOMAIN result = Fields
    /\ \A f \in Fields : result[f] = ResponseObject[f]

C8_Witness ==
  /\ pc = "done" /\ HasObject /\ SatisfiesSchema(ResponseObject)
  /\ Len(ResponseObject["existing_skills"].l) = 2
  /\ ResponseObject["existing_skills"].l[1] # ResponseObject["existing_skills"].l[2]
  /\ result = ResponseObject
  /\ rendered = result

RECURSIVE Flatten(_)
\* the concatenation of the texts of ps, in order
Flatten(ps) == IF ps = <<>> THEN <<>> ELSE Head(ps) \o Flatten(Tail(ps))

RECURSIVE Lines(_)
\* each text of ps followed by one newline, in order
Lines(ps) == IF ps = <<>> THEN <<>> ELSE Head(ps) \o <<"\n">> \o Lines(Tail(ps))

Newlines(t) == Len(SelectSeq(t, LAMBDA c : c = "\n"))

\* C9: for a valid DOCX with paragraphs p1..pn the extracted text is
\* p1 + newline + ... + pn + newline (the empty string for no paragraph)
C9_DocxLines ==
  (PostExtract /\ uploaded_file # None /\ uploaded_file.type = "docx"
     /\ uploaded_file.raises_at = 0) =>
    /\ resume_text = Lines(uploaded_file.parts)
    /\ Newlines(resume_text) = Len(uploaded_file.parts)
    /\ (uploaded_file.parts = <<>> => resume_text = <<>>)

C9_Witness ==
  /\ pc = "button" /\ uploaded_file # None /\ uploaded_file.type = "docx"
  /\ uploaded_file.parts = << <<"b">>, <<"a">> >>
  /\ resume_text = <<"b", "\n", "a", "\n">>

\* C10: for a valid PDF the extracted text is the concatenation of the
\* pages' texts in page order with nothing between them, a page without text
\* adds nothing, and a later extraction of the same file gives the same text
C10_PdfConcatenation ==
  (PostExtract /\ uploaded_file # None /\ uploaded_file.type = "pdf"
     /\ uploaded_file.raises_at = 0) =>
    /\ resume_text = Flatten(uploaded_file.parts)
    /\ extracted_before.some /\ resume_text = extracted_before.text

C10_Witness ==
  /\ pc = "button" /\ uploaded_file # None /\ uploaded_file.type = "pdf"
  /\ uploaded_file.parts = << <<"b">>, <<>> >>
  /\ resume_text = <<"b">>
  /\ extracted_before.some /\ extracted_before.again

====
